---- MODULE Spec2Model ----
(***************************************************************************)
(* Model of src/src/db.rs of ipfs-sqlite-block-store: the tables of the    *)
(* INIT schema, the statements each function executes on them, and the     *)
(* transaction harness in_txn.  Every action is one call of a db.rs        *)
(* function inside one transaction.                                        *)
(***************************************************************************)
EXTENDS Integers, Sequences, FiniteSets, TLC

(* ------------------------------ bounds -------------------------------- *)
\* number of distinct cids (hashes) the callers use
NumHashes == 3
\* number of distinct alias names the callers use
NumNames == 1
\* number of session handles (TempPin cells) alive at the same time
NumHandles == 2
\* largest rowid of cids the model lets the engine assign
MaxId == 3
\* largest temp_pins.id the model lets put_block allocate
MaxPinId == 3
\* longest link list passed to put_block
MaxLinks == 2
\* largest count / size of the SizeTargets passed to incremental_gc
MaxTarget == 1
\* largest min_blocks passed to incremental_gc / incremental_delete_orphaned
MaxMinBlocks == 2
\* number of write transactions in one run of the model
MaxWrites == 4

Hashes == 1..NumHashes
Names == 1..NumNames
Handles == 1..NumHandles

\* Option::None, for an id (rowids are >= 1) and for a handle argument
None == 0 - 1

\* The blocks the callers hold.  Block encoding and hash validation are the
\* caller's: a content-addressed caller passes, with cid h, the payload
\* ContentOf(h) and the links LinksOf(h) that h is the hash of.  Distinct
\* cids have distinct payloads (of lengths 1, 2, 0, ...), and every block
\* links to the next two cids, so the links form a DAG with shared children.
ContentOf(h) == [i \in 1..(h % 3) |-> h]
LinksOf(h) == SubSeq(<<h + 1, h + 2>>, 1, IF NumHashes - h > 2 THEN 2 ELSE NumHashes - h)
Payloads == {ContentOf(h) : h \in Hashes}

\* the link list of a caller that names one child twice
TwiceLinksOf(h) == <<(h % NumHashes) + 1, (h % NumHashes) + 1>>

RECURSIVE SeqsUpTo(_, _)
SeqsUpTo(S, n) ==
    IF n = 0 THEN {<<>>}
    ELSE LET shorter == SeqsUpTo(S, n - 1)
         IN  shorter \cup {Append(s, x) : s \in {t \in shorter : Len(t) = n - 1}, x \in S}
LinkLists == SeqsUpTo(Hashes, MaxLinks)

Range(s) == {s[i] : i \in DOMAIN s}
SetMax(S) == CHOOSE x \in S : \A y \in S : y <= x
SetMin(S) == CHOOSE x \in S : \A y \in S : x <= y

RECURSIVE SortedSeq(_)
SortedSeq(S) == IF S = {} THEN <<>> ELSE <<SetMin(S)>> \o SortedSeq(S \ {SetMin(S)})

RECURSIVE SumLen(_)
SumLen(rows) ==
    IF rows = {} THEN 0
    ELSE LET r == CHOOSE x \in rows : TRUE IN Len(r.block) + SumLen(rows \ {r})

(* ------------------------------- state -------------------------------- *)
VARIABLES
    cids,       \* table cids: rows [id, cid]
    refs,       \* table refs: rows [parent_id, child_id]
    blocks,     \* table blocks: rows [block_id, block]
    aliases,    \* table aliases: rows [name, block_id]
    temp_pins,  \* table temp_pins: rows [id, block_id]
    stats,      \* table stats: its single row [count, size]
    handles,    \* the AtomicI64 of every session handle
    last,       \* the last call made and what it returned (see Ret)
    put_log,    \* per cid: were the committed put_block calls content-addressed
    assigned,   \* every row [id, cid] that was ever inserted into cids
    writes      \* number of write transactions begun so far

vars == <<cids, refs, blocks, aliases, temp_pins, stats, handles, last, put_log, assigned, writes>>

\* the database as one value, as a transaction sees and changes it
DB == [cids |-> cids, refs |-> refs, blocks |-> blocks, aliases |-> aliases,
       temp_pins |-> temp_pins, stats |-> stats]

\* in_txn, Ok branch followed by a successful commit
Commit(d) ==
    /\ cids' = d.cids
    /\ assigned' = assigned \cup d.cids
    /\ refs' = d.refs
    /\ blocks' = d.blocks
    /\ aliases' = d.aliases
    /\ temp_pins' = d.temp_pins
    /\ stats' = d.stats

\* in_txn, Err branch or failed commit: the transaction is dropped
Rollback == UNCHANGED <<cids, refs, blocks, aliases, temp_pins, stats, assigned>>

\* in_txn as it would be if it committed whatever the closure returned
in_txn_commit_always(ok, d) == Commit(d)

\* in_txn: ok when the closure returned Ok, with d the database it left, and
\* txn.commit() succeeded
in_txn(ok, d) == IF ok THEN Commit(d) ELSE Rollback

\* the last call and how it ended: status is "Ok", "Err" (the closure
\* returned an Err, the transaction is rolled back and the caller gets the
\* Err), "CommitErr" (the closure returned Ok and txn.commit() failed: the
\* caller gets an Err as well), "Panic" (a debug assertion failed) or
\* "Diverges" (the call does not return); done is the bool of an
\* Ok(bool), n the number of rows the call inserted into blocks (put_block)
\* or deleted (the other calls)
Ret(op, status) == [op |-> op, status |-> status, done |-> FALSE, n |-> 0]

(* --------------------------- identifier map --------------------------- *)
get_id(d, cid) ==
    IF \E r \in d.cids : r.cid = cid
    THEN (CHOOSE r \in d.cids : r.cid = cid).id
    ELSE None

\* rowid the engine gives a row inserted into cids without an id:
\* id INTEGER PRIMARY KEY without AUTOINCREMENT is max(rowid) + 1
NewRowId(d) == IF d.cids = {} THEN 1 ELSE SetMax({r.id : r \in d.cids}) + 1

get_or_create_id(d, cid) ==
    IF get_id(d, cid) # None
    THEN [id |-> get_id(d, cid), db |-> d]
    ELSE [id |-> NewRowId(d),
          db |-> [d EXCEPT !.cids = @ \cup {[id |-> NewRowId(d), cid |-> cid]}]]

(* ------------------------------- stats -------------------------------- *)
\* the join of cids and blocks on id = block_id
JoinedBlocks(d) == {b \in d.blocks : \E r \in d.cids : r.id = b.block_id}

compute_store_stats(d) ==
    [count |-> Cardinality(JoinedBlocks(d)), size |-> SumLen(JoinedBlocks(d))]

(* ----------------------------- put_block ------------------------------ *)
\* the loop over links: Ok with the new database, or Err at the first
\* (parent_id, child_id) that violates the primary key of refs
RECURSIVE InsertLinks(_, _, _)
InsertLinks(d, id, links) ==
    IF links = <<>> THEN [ok |-> TRUE, db |-> d]
    ELSE LET c == get_or_create_id(d, Head(links))
             row == [parent_id |-> id, child_id |-> c.id]
         IN  IF row \in c.db.refs
             THEN [ok |-> FALSE, db |-> c.db]
             ELSE InsertLinks([c.db EXCEPT !.refs = @ \cup {row}], id, Tail(links))

\* SELECT COALESCE(MAX(id), 1) + 1 FROM temp_pins
NewPinId(d) ==
    IF d.temp_pins = {} THEN 2 ELSE SetMax({t.id : t \in d.temp_pins}) + 1

\* put_block as it would be if it allocated a PinId on every call, also for
\* a handle that holds one
put_block_fresh_pin(d, key, data, links, alias) ==
    LET g == get_or_create_id(d, key)
        id == g.id
        block_exists == \E b \in g.db.blocks : b.block_id = id
        alias_id == IF alias = None THEN None ELSE NewPinId(g.db)
        d1 == IF alias = None THEN g.db
              ELSE [g.db EXCEPT !.temp_pins = @ \cup {[id |-> alias_id, block_id |-> id]}]
        d2 == [d1 EXCEPT !.blocks = @ \cup {[block_id |-> id, block |-> data]},
                         !.stats = [count |-> @.count + 1, size |-> @.size + Len(data)]]
        l == InsertLinks(d2, id, links)
    IN  IF block_exists
        THEN [ok |-> TRUE, id |-> id, db |-> d1, alias |-> alias_id]
        ELSE [ok |-> l.ok, id |-> id, db |-> l.db, alias |-> alias_id]

\* put_block as it would be if it wrote the links of a block that exists
put_block_relink(d, key, data, links, alias) ==
    LET g == get_or_create_id(d, key)
        id == g.id
        block_exists == \E b \in g.db.blocks : b.block_id = id
        alias_id == IF alias = None THEN None
                    ELSE IF alias > 0 THEN alias ELSE NewPinId(g.db)
        d1 == IF alias = None THEN g.db
              ELSE [g.db EXCEPT !.temp_pins = @ \cup {[id |-> alias_id, block_id |-> id]}]
        d2 == IF block_exists THEN d1
              ELSE [d1 EXCEPT !.blocks = @ \cup {[block_id |-> id, block |-> data]},
                              !.stats = [count |-> @.count + 1, size |-> @.size + Len(data)]]
        l == InsertLinks(d2, id, links)
    IN  [ok |-> l.ok, id |-> id, db |-> l.db, alias |-> alias_id]

\* alias is None or the current value of the session handle; the result
\* carries the value the handle holds afterwards
put_block(d, key, data, links, alias) ==
    LET g == get_or_create_id(d, key)
        id == g.id
        block_exists == \E b \in g.db.blocks : b.block_id = id
        alias_id == IF alias = None THEN None
                    ELSE IF alias > 0 THEN alias ELSE NewPinId(g.db)
        d1 == IF alias = None THEN g.db
              ELSE [g.db EXCEPT !.temp_pins = @ \cup {[id |-> alias_id, block_id |-> id]}]
        d2 == [d1 EXCEPT !.blocks = @ \cup {[block_id |-> id, block |-> data]},
                         !.stats = [count |-> @.count + 1, size |-> @.size + Len(data)]]
        l == InsertLinks(d2, id, links)
    IN  IF block_exists
        THEN [ok |-> TRUE, id |-> id, db |-> d1, alias |-> alias_id]
        ELSE [ok |-> l.ok, id |-> id, db |-> l.db, alias |-> alias_id]

\* put_log after a committed put_block(key, data, ..)
LogPut(key, data) ==
    [put_log EXCEPT ![key] = IF data # ContentOf(key) \/ @ = "bad" THEN "bad" ELSE "ok"]

\* a session calls put_block in a write transaction, with handle k or none
PutBlock(key, data, links, k, commit) ==
    LET alias == IF k = None THEN None ELSE handles[k]
        r == put_block(DB, key, data, links, alias)
        ok == r.ok /\ commit
    IN  /\ writes < MaxWrites
        /\ \A row \in r.db.cids : row.id <= MaxId
        /\ r.alias <= MaxPinId
        /\ handles' = IF k = None THEN handles ELSE [handles EXCEPT ![k] = r.alias]
        /\ in_txn(ok, r.db)
        /\ last' = IF ok
                   THEN [Ret("put_block", "Ok") EXCEPT !.n = Cardinality(r.db.blocks \ blocks)]
                   ELSE Ret("put_block", IF r.ok THEN "CommitErr" ELSE "Err")
        /\ put_log' = IF ok THEN LogPut(key, data) ELSE put_log
        /\ writes' = writes + 1

(* ------------------------------ reads -------------------------------- *)
\* Option<(i64, Vec<u8>)> as a sequence of length 0 or 1
get_block(d, cid) ==
    LET id == get_id(d, cid)
    IN  IF id = None THEN <<>>
        ELSE IF \E b \in d.blocks : b.block_id = id
             THEN <<[id |-> id, block |-> (CHOOSE b \in d.blocks : b.block_id = id).block]>>
             ELSE <<>>

has_block(d, cid) ==
    \E b \in d.blocks, r \in d.cids : b.block_id = r.id /\ r.cid = cid

has_cid(d, cid) == \E r \in d.cids : r.cid = cid

(* ------------------------- recursive queries -------------------------- *)
\* rows the recursive select yields for one row of the queue:
\* SELECT DISTINCT child_id FROM refs JOIN descendant_of ON descendant_of.id = refs.parent_id
ChildRows(d, row) ==
    LET kids == SortedSeq({x.child_id : x \in {y \in d.refs : y.parent_id = row.id}})
    IN  [i \in 1..Len(kids) |-> [id |-> kids[i], depth |-> row.depth + 1]]

\* WITH RECURSIVE descendant_of(id) AS (<seed> UNION ALL <recursive select>):
\* the engine takes one row off the queue, adds it to the result, runs the
\* recursive select on that row alone and appends what it yields to the
\* queue; UNION ALL keeps rows that are already in the result.  A row at
\* depth >= limit (the number of cids) lies on a path that repeats an id, so
\* the queue never empties: the query does not return.
RECURSIVE descendant_of(_, _, _, _)
descendant_of(d, queue, out, limit) ==
    IF queue = <<>> THEN [diverges |-> FALSE, rows |-> out]
    ELSE IF Head(queue).depth >= limit THEN [diverges |-> TRUE, rows |-> out]
    ELSE descendant_of(d, Tail(queue) \o ChildRows(d, Head(queue)),
                       Append(out, Head(queue).id), limit)

SeedRows(ids) == [i \in 1..Len(ids) |-> [id |-> ids[i], depth |-> 0]]

\* SELECT DISTINCT id FROM <rows>, in the order of first occurrence
RECURSIVE Distinct(_)
Distinct(rows) ==
    IF rows = <<>> THEN <<>>
    ELSE LET init == Distinct(SubSeq(rows, 1, Len(rows) - 1))
             x == rows[Len(rows)]
         IN  IF x \in Range(init) THEN init ELSE Append(init, x)

\* SELECT cid FROM cids JOIN <ids> ON cids.id = <ids>.id
RECURSIVE JoinCids(_, _)
JoinCids(d, ids) ==
    IF ids = <<>> THEN <<>>
    ELSE SortedSeq({r.cid : r \in {x \in d.cids : x.id = Head(ids)}}) \o JoinCids(d, Tail(ids))

\* get_descendants as it would be without the SELECT DISTINCT of descendant_ids
get_descendants_all_rows(d, cid) ==
    LET seed == SortedSeq({r.id : r \in {x \in d.cids : x.cid = cid}})
        w == descendant_of(d, SeedRows(seed), <<>>, Cardinality(d.cids))
    IN  [diverges |-> w.diverges, list |-> JoinCids(d, w.rows)]

get_descendants(d, cid) ==
    LET seed == SortedSeq({r.id : r \in {x \in d.cids : x.cid = cid}})
        w == descendant_of(d, SeedRows(seed), <<>>, Cardinality(d.cids))
    IN  [diverges |-> w.diverges, list |-> JoinCids(d, Distinct(w.rows))]

RECURSIVE WithoutBlock(_, _)
WithoutBlock(d, rows) ==
    IF rows = <<>> THEN <<>>
    ELSE (IF \E b \in d.blocks : b.block_id = Head(rows) THEN <<>> ELSE <<Head(rows)>>)
         \o WithoutBlock(d, Tail(rows))

get_missing_blocks(d, cid) ==
    LET g == get_or_create_id(d, cid)
        w == descendant_of(g.db, SeedRows(<<g.id>>), <<>>, Cardinality(g.db.cids))
        orphaned_ids == Distinct(WithoutBlock(g.db, w.rows))
    IN  [diverges |-> w.diverges, db |-> g.db, list |-> JoinCids(g.db, orphaned_ids)]

(* --------------------------- incremental_gc --------------------------- *)
\* SizeTargets::exceeded
exceeded(size_targets, s) ==
    s.count > size_targets.count \/ s.size > size_targets.size

\* the local StoreStats holds u64: a subtraction below zero wraps in a
\* release build, to a value above every target of the model
exceeded_u64(size_targets, s) ==
    s.count < 0 \/ s.size < 0 \/ exceeded(size_targets, s)

\* DELETE FROM cids WHERE id = ? as it would be without foreign keys
delete_cid_no_cascade(d, id) == [d EXCEPT !.cids = {r \in @ : r.id # id}]

\* DELETE FROM cids WHERE id = ?, with the ON DELETE CASCADE of refs (both
\* columns), aliases and temp_pins; blocks has no foreign key
delete_cid(d, id) ==
    [d EXCEPT !.cids = {r \in @ : r.id # id},
              !.refs = {x \in @ : x.parent_id # id /\ x.child_id # id},
              !.aliases = {a \in @ : a.block_id # id},
              !.temp_pins = {t \in @ : t.block_id # id}]

\* the id query as it would be without the recursive select: only the
\* targets of aliases and temp pins are kept
gc_id_query_pinned_only(d) ==
    [diverges |-> FALSE,
     ids |-> SortedSeq({r.id : r \in d.cids}
                       \ ({a.block_id : a \in d.aliases} \cup {t.block_id : t \in d.temp_pins}))]

\* the id query: the ids of cids that are not in descendant_of, seeded with
\* SELECT block_id FROM aliases UNION SELECT block_id FROM temp_pins
gc_id_query(d) ==
    LET seed == SortedSeq({a.block_id : a \in d.aliases} \cup {t.block_id : t \in d.temp_pins})
        w == descendant_of(d, SeedRows(seed), <<>>, Cardinality(d.cids))
    IN  [diverges |-> w.diverges,
         ids |-> SortedSeq({r.id : r \in d.cids} \ Range(w.rows))]

\* the loop as it would be if the time limit alone ended it, without the
\* n >= min_blocks of the first break
RECURSIVE gc_loop_time_only(_, _, _, _, _, _, _)
gc_loop_time_only(d, ids, n, st, min_blocks, timeout_at, size_targets) ==
    IF n = Len(ids) THEN [db |-> d, n |-> n, stats |-> st]
    ELSE IF n >= timeout_at THEN [db |-> d, n |-> n, stats |-> st]
    ELSE IF ~exceeded_u64(size_targets, st) THEN [db |-> d, n |-> n, stats |-> st]
    ELSE LET id == ids[n + 1]
             has == \E b \in d.blocks : b.block_id = id
             block_size == Len((CHOOSE b \in d.blocks : b.block_id = id).block)
             d1 == IF has
                   THEN [d EXCEPT !.stats = [count |-> @.count - 1, size |-> @.size - block_size]]
                   ELSE d
             st1 == IF has
                    THEN [count |-> st.count - 1, size |-> st.size - block_size]
                    ELSE st
         IN  gc_loop_time_only(delete_cid(d1, id), ids, n + 1, st1,
                               min_blocks, timeout_at, size_targets)

\* the loop as it would be without the break on satisfied targets
RECURSIVE gc_loop_ignore_targets(_, _, _, _, _, _, _)
gc_loop_ignore_targets(d, ids, n, st, min_blocks, timeout_at, size_targets) ==
    IF n = Len(ids) THEN [db |-> d, n |-> n, stats |-> st]
    ELSE IF n >= min_blocks /\ n >= timeout_at THEN [db |-> d, n |-> n, stats |-> st]
    ELSE LET id == ids[n + 1]
             has == \E b \in d.blocks : b.block_id = id
             block_size == Len((CHOOSE b \in d.blocks : b.block_id = id).block)
             d1 == IF has
                   THEN [d EXCEPT !.stats = [count |-> @.count - 1, size |-> @.size - block_size]]
                   ELSE d
             st1 == IF has
                    THEN [count |-> st.count - 1, size |-> st.size - block_size]
                    ELSE st
         IN  gc_loop_ignore_targets(delete_cid(d1, id), ids, n + 1, st1,
                                    min_blocks, timeout_at, size_targets)

\* the loop over ids; n ids are done, st is the local stats, and
\* t0.elapsed() > max_duration holds from iteration timeout_at on
RECURSIVE gc_loop(_, _, _, _, _, _, _)
gc_loop(d, ids, n, st, min_blocks, timeout_at, size_targets) ==
    IF n = Len(ids) THEN [db |-> d, n |-> n, stats |-> st]
    ELSE IF n >= min_blocks /\ n >= timeout_at THEN [db |-> d, n |-> n, stats |-> st]
    ELSE IF ~exceeded_u64(size_targets, st) THEN [db |-> d, n |-> n, stats |-> st]
    ELSE LET id == ids[n + 1]
             has == \E b \in d.blocks : b.block_id = id
             block_size == Len((CHOOSE b \in d.blocks : b.block_id = id).block)
             d1 == IF has
                   THEN [d EXCEPT !.stats = [count |-> @.count - 1, size |-> @.size - block_size]]
                   ELSE d
             st1 == IF has
                    THEN [count |-> st.count - 1, size |-> st.size - block_size]
                    ELSE st
         IN  gc_loop(delete_cid(d1, id), ids, n + 1, st1, min_blocks, timeout_at, size_targets)

\* all orders CacheTracker::sort_ids can leave the ids in
RECURSIVE Orders(_)
Orders(S) ==
    IF S = {} THEN {<<>>}
    ELSE UNION {{<<x>> \o p : p \in Orders(S \ {x})} : x \in S}

\* incremental_gc as it would be if it passed the whole list to delete_ids
incremental_gc_notify_all(d, min_blocks, timeout_at, size_targets, ids) ==
    LET l == gc_loop(d, ids, 0, d.stats, min_blocks, timeout_at, size_targets)
    IN  IF ~exceeded(size_targets, d.stats)
        THEN [db |-> d, done |-> TRUE, deleted |-> <<>>, tracker |-> <<>>]
        ELSE [db |-> l.db,
              done |-> (l.n = Len(ids) \/ ~exceeded_u64(size_targets, l.stats)),
              deleted |-> SubSeq(ids, 1, l.n),
              tracker |-> <<[call |-> "sort_ids", ids |-> ids],
                            [call |-> "delete_ids", ids |-> ids]>>]

\* incremental_gc as it would be if it returned true only for a drained list
incremental_gc_done_when_drained(d, min_blocks, timeout_at, size_targets, ids) ==
    LET l == gc_loop(d, ids, 0, d.stats, min_blocks, timeout_at, size_targets)
    IN  IF ~exceeded(size_targets, d.stats)
        THEN [db |-> d, done |-> TRUE, deleted |-> <<>>, tracker |-> <<>>]
        ELSE [db |-> l.db,
              done |-> (l.n = Len(ids)),
              deleted |-> SubSeq(ids, 1, l.n),
              tracker |-> <<[call |-> "sort_ids", ids |-> ids],
                            [call |-> "delete_ids", ids |-> SubSeq(ids, 1, l.n)]>>]

\* ids is the list after cache_tracker.sort_ids; tracker is the sequence of
\* the calls made on the CacheTracker, each with the list it is given
incremental_gc(d, min_blocks, timeout_at, size_targets, ids) ==
    LET l == gc_loop(d, ids, 0, d.stats, min_blocks, timeout_at, size_targets)
    IN  IF ~exceeded(size_targets, d.stats)
        THEN [db |-> d, done |-> TRUE, deleted |-> <<>>, tracker |-> <<>>]
        ELSE [db |-> l.db,
              done |-> (l.n = Len(ids) \/ ~exceeded_u64(size_targets, l.stats)),
              deleted |-> SubSeq(ids, 1, l.n),
              tracker |-> <<[call |-> "sort_ids", ids |-> ids],
                            [call |-> "delete_ids", ids |-> SubSeq(ids, 1, l.n)]>>]

SizeTargets == [count : 0..MaxTarget, size : 0..MaxTarget]

\* put_log after a garbage collection: the payloads put before it may be gone
LogGc == [h \in Hashes |-> IF put_log[h] = "ok" THEN "none" ELSE put_log[h]]

\* debug: the build has debug assertions (get_store_stats compares the stats
\* row with compute_store_stats)
IncrementalGc(min_blocks, timeout_at, size_targets, debug) ==
    LET q == gc_id_query(DB)
    IN  /\ writes < MaxWrites
        /\ writes' = writes + 1
        /\ UNCHANGED handles
        /\ IF stats.count < 0 \/ stats.size < 0
           THEN \* get_store_stats: u64::try_from fails
                /\ Rollback
                /\ last' = Ret("incremental_gc", "Err")
                /\ UNCHANGED put_log
           ELSE IF debug /\ stats # compute_store_stats(DB)
           THEN /\ Rollback
                /\ last' = Ret("incremental_gc", "Panic")
                /\ UNCHANGED put_log
           ELSE IF exceeded(size_targets, stats) /\ q.diverges
           THEN /\ Rollback
                /\ last' = Ret("incremental_gc", "Diverges")
                /\ UNCHANGED put_log
           ELSE \E ids \in Orders(Range(q.ids)) :
                LET r == incremental_gc(DB, min_blocks, timeout_at, size_targets, ids)
                IN  /\ Commit(r.db)
                    /\ last' = [Ret("incremental_gc", "Ok") EXCEPT
                                   !.done = r.done, !.n = Len(r.deleted)]
                    /\ put_log' = LogGc

(* -------------------- incremental_delete_orphaned --------------------- *)
\* the query of the orphaned blocks as it would be without its WHERE clause
orphaned_all_blocks(d) == SortedSeq({b.block_id : b \in d.blocks})

orphaned(d) == SortedSeq({b.block_id : b \in d.blocks} \ {r.id : r \in d.cids})

RECURSIVE orphan_loop(_, _, _, _, _)
orphan_loop(d, ids, n, min_blocks, timeout_at) ==
    IF n = Len(ids) THEN [db |-> d, n |-> n]
    ELSE IF n >= min_blocks /\ n >= timeout_at THEN [db |-> d, n |-> n]
    ELSE orphan_loop([d EXCEPT !.blocks = {b \in @ : b.block_id # ids[n + 1]}],
                     ids, n + 1, min_blocks, timeout_at)

incremental_delete_orphaned(d, min_blocks, timeout_at) ==
    LET ids == orphaned(d)
        l == orphan_loop(d, ids, 0, min_blocks, timeout_at)
    IN  [db |-> l.db, done |-> (l.n = Len(ids))]

IncrementalDeleteOrphaned(min_blocks, timeout_at) ==
    LET r == incremental_delete_orphaned(DB, min_blocks, timeout_at)
    IN  /\ writes < MaxWrites
        /\ writes' = writes + 1
        /\ Commit(r.db)
        /\ last' = [Ret("incremental_delete_orphaned", "Ok") EXCEPT
                       !.done = r.done, !.n = Cardinality(blocks \ r.db.blocks)]
        /\ put_log' = LogGc
        /\ UNCHANGED handles

(* ------------------------ alias and pin registry ---------------------- *)
delete_temp_pin(d, alias) ==
    [d EXCEPT !.temp_pins = {t \in @ : t.id # alias}]

\* the owner of handle k releases it; the slot then holds a new handle
DeleteTempPin(k) ==
    /\ writes < MaxWrites
    /\ writes' = writes + 1
    /\ handles[k] > 0
    /\ Commit(delete_temp_pin(DB, handles[k]))
    /\ handles' = [handles EXCEPT ![k] = 0]
    /\ last' = [Ret("delete_temp_pin", "Ok") EXCEPT
                   !.n = Cardinality({t \in temp_pins : t.id = handles[k]})]
    /\ UNCHANGED put_log

\* key is None (remove the alias) or a cid
alias(d, name, key) ==
    IF key # None
    THEN LET g == get_or_create_id(d, key)
         IN  [g.db EXCEPT !.aliases = {a \in @ : a.name # name}
                                        \cup {[name |-> name, block_id |-> g.id]}]
    ELSE [d EXCEPT !.aliases = {a \in @ : a.name # name}]

Alias(name, key) ==
    LET d == alias(DB, name, key)
    IN  /\ writes < MaxWrites
        /\ writes' = writes + 1
        /\ \A row \in d.cids : row.id <= MaxId
        /\ Commit(d)
        /\ last' = Ret("alias", "Ok")
        /\ UNCHANGED <<handles, put_log>>

(* ---------------------------- reverse_alias --------------------------- *)
\* rows the recursive select yields for one row of the queue:
\* SELECT DISTINCT parent_id FROM refs JOIN ancestor_of ON ancestor_of.id = refs.child_id
ParentRows(d, row) ==
    LET parents == SortedSeq({x.parent_id : x \in {y \in d.refs : y.child_id = row.id}})
    IN  [i \in 1..Len(parents) |-> [id |-> parents[i], depth |-> row.depth + 1]]

\* WITH RECURSIVE ancestor_of(id) AS (SELECT ? UNION ALL <recursive select>),
\* evaluated like descendant_of
RECURSIVE ancestor_of(_, _, _, _)
ancestor_of(d, queue, out, limit) ==
    IF queue = <<>> THEN [diverges |-> FALSE, rows |-> out]
    ELSE IF Head(queue).depth >= limit THEN [diverges |-> TRUE, rows |-> out]
    ELSE ancestor_of(d, Tail(queue) \o ParentRows(d, Head(queue)),
                     Append(out, Head(queue).id), limit)

\* name FROM <ids> LEFT JOIN aliases ON <ids>.id = block_id: the names of
\* the aliases of every id, and one NULL (None) for an id without an alias
RECURSIVE LeftJoinAliases(_, _)
LeftJoinAliases(d, ids) ==
    IF ids = <<>> THEN <<>>
    ELSE LET names == SortedSeq({a.name : a \in {x \in d.aliases : x.block_id = Head(ids)}})
         IN  (IF names = <<>> THEN <<None>> ELSE names) \o LeftJoinAliases(d, Tail(ids))

\* the seed is the id of cid, or NULL (None) when cid has none; every row of
\* the result is read with row.get(0) as a Vec<u8>, which is an Err for a
\* NULL name: the call is Ok only if no name of the result is NULL
reverse_alias(d, cid) ==
    LET id == get_id(d, cid)
        w == ancestor_of(d, SeedRows(<<id>>), <<>>, Cardinality(d.cids) + 1)
        names == Distinct(LeftJoinAliases(d, w.rows))
    IN  [diverges |-> w.diverges, ok |-> None \notin Range(names), list |-> names]

(* ------------------------- get_missing_blocks ------------------------- *)
GetMissingBlocks(cid) ==
    LET r == get_missing_blocks(DB, cid)
    IN  /\ writes < MaxWrites
        /\ writes' = writes + 1
        /\ \A row \in r.db.cids : row.id <= MaxId
        /\ IF r.diverges
           THEN /\ Rollback
                /\ last' = Ret("get_missing_blocks", "Diverges")
           ELSE /\ Commit(r.db)
                /\ last' = Ret("get_missing_blocks", "Ok")
        /\ UNCHANGED <<handles, put_log>>

(* ------------------------------ init_db ------------------------------- *)
\* the INIT script as it would be without DELETE FROM temp_pins
init_db_keep_pins(d) == [d EXCEPT !.stats = compute_store_stats(d)]

\* the INIT script on an existing v1 database: DELETE FROM temp_pins, then
\* the stats row from the real values
init_db(d) ==
    LET d1 == [d EXCEPT !.temp_pins = {}]
    IN  [d1 EXCEPT !.stats = compute_store_stats(d1)]

\* the process ends (or crashes) and the store is opened again; the session
\* handles of the old process are gone, the new ones start at 0
Reopen ==
    /\ writes < MaxWrites
    /\ writes' = writes + 1
    /\ Commit(init_db(DB))
    /\ handles' = [k \in Handles |-> 0]
    /\ last' = [Ret("init_db", "Ok") EXCEPT !.n = Cardinality(temp_pins)]
    /\ UNCHANGED put_log

(* ------------------------------- system ------------------------------- *)
Init ==
    /\ cids = {}
    /\ refs = {}
    /\ blocks = {}
    /\ aliases = {}
    /\ temp_pins = {}
    /\ stats = [count |-> 0, size |-> 0]
    /\ handles = [k \in Handles |-> 0]
    /\ last = Ret("init_db", "Ok")
    /\ put_log = [h \in Hashes |-> "none"]
    /\ assigned = {}
    /\ writes = 0

Next ==
    \/ \E key \in Hashes, k \in Handles \cup {None}, commit \in BOOLEAN :
          \E links \in {LinksOf(key), TwiceLinksOf(key)} :
              PutBlock(key, ContentOf(key), links, k, commit)
    \/ \E name \in Names, key \in Hashes \cup {None} : Alias(name, key)
    \/ \E k \in Handles : DeleteTempPin(k)
    \/ \E min_blocks \in 0..MaxMinBlocks, timeout_at \in 0..MaxId,
          size_targets \in SizeTargets, debug \in BOOLEAN :
          IncrementalGc(min_blocks, timeout_at, size_targets, debug)
    \/ \E min_blocks \in 0..MaxMinBlocks, timeout_at \in 0..MaxId :
          IncrementalDeleteOrphaned(min_blocks, timeout_at)
    \/ \E cid \in Hashes : GetMissingBlocks(cid)
    \/ Reopen

Spec == Init /\ [][Next]_vars

(* ------------------------ notions of the claims ----------------------- *)
\* the database after the step
DBnext == [cids |-> cids', refs |-> refs', blocks |-> blocks', aliases |-> aliases',
           temp_pins |-> temp_pins', stats |-> stats']

\* the least set that contains S and the refs children of its members
RECURSIVE Closure(_, _)
Closure(d, S) ==
    LET T == S \cup {x.child_id : x \in {y \in d.refs : y.parent_id \in S}}
    IN  IF T = S THEN S ELSE Closure(d, T)

PinnedIds(d) == {a.block_id : a \in d.aliases} \cup {t.block_id : t \in d.temp_pins}
Reachable(d) == Closure(d, PinnedIds(d))
CidsOf(d, ids) == {r.cid : r \in {x \in d.cids : x.id \in ids}}
IdsOf(d, cid) == {r.id : r \in {x \in d.cids : x.cid = cid}}
NoDuplicates(s) == \A i, j \in DOMAIN s : s[i] = s[j] => i = j
ZeroTargets == [count |-> 0, size |-> 0]

(* -------------------------------- C1 ---------------------------------- *)
\* C1: content addressing. For every cid h whose put_block calls were
\* content-addressed and of which one committed since the last garbage
\* collection, get_block(h) returns a pair whose payload is the payload put.
C1_ContentAddressing ==
    \A h \in Hashes :
        put_log[h] = "ok" =>
            /\ get_block(DB, h) # <<>>
            /\ get_block(DB, h)[1].block = ContentOf(h)

(* -------------------------------- C2 ---------------------------------- *)
\* C2: stats coherence. After every committed transaction the stats row
\* equals the count and the total payload length over the join of cids and
\* blocks.
C2_StatsCoherence == stats = compute_store_stats(DB)

(* -------------------------------- C3 ---------------------------------- *)
\* C3: GC safety. Every id that is reachable from aliases and temp_pins over
\* refs before an incremental_gc call is still in cids after it, with the
\* same cid, the same outgoing refs rows and the same aliases and temp_pins
\* rows.
C3_GcSafety ==
    [][last'.op = "incremental_gc" =>
        \A id \in Reachable(DB) :
            /\ {r \in cids' : r.id = id} = {r \in cids : r.id = id}
            /\ {r \in cids : r.id = id} # {}
            /\ {x \in refs' : x.parent_id = id} = {x \in refs : x.parent_id = id}
            /\ {a \in aliases' : a.block_id = id} = {a \in aliases : a.block_id = id}
            /\ {t \in temp_pins' : t.block_id = id} = {t \in temp_pins : t.block_id = id}
      ]_vars

\* an incremental_gc call has deleted ids and has left an id that is
\* reachable only as a descendant
C3_Witness ==
    /\ last.op = "incremental_gc"
    /\ last.status = "Ok"
    /\ last.n > 0
    /\ Reachable(DB) \ PinnedIds(DB) # {}

(* -------------------------------- C4 ---------------------------------- *)
\* C4: identifier uniqueness over time. No id is ever associated with two
\* different cids: not in one state of cids, and not by giving the id of a
\* deleted row to a cid interned later.
C4_IdNeverReused ==
    \A p, q \in assigned : p.id = q.id => p.cid = q.cid

C6_PinIsolation ==
    \A k1, k2 \in Handles :
        (k1 # k2 /\ handles[k1] > 0 /\ handles[k2] > 0) => handles[k1] # handles[k2]

(* -------------------------------- C7 ---------------------------------- *)
\* C7: GC completeness at zero targets. When incremental_gc with targets
\* (0, 0) returns Ok(true), every cid with a block is afterwards reachable
\* from an alias or a temp pin; without aliases and temp pins the stats are
\* (0, 0) and no cid has a block.
C7_GcComplete ==
    \A min_blocks \in 0..MaxMinBlocks, timeout_at \in 0..MaxId :
        (stats.count >= 0 /\ stats.size >= 0 /\ ~gc_id_query(DB).diverges) =>
            \A ids \in Orders(Range(gc_id_query(DB).ids)) :
                LET r == incremental_gc(DB, min_blocks, timeout_at, ZeroTargets, ids)
                IN  r.done =>
                        /\ \A h \in Hashes :
                               has_block(r.db, h) => IdsOf(r.db, h) \subseteq Reachable(r.db)
                        /\ PinnedIds(r.db) = {} =>
                               /\ r.db.stats = ZeroTargets
                               /\ \A h \in Hashes : get_block(r.db, h) = <<>>

(* -------------------------------- C8 ---------------------------------- *)
\* C8: crash-safe pins. init_db on an existing store removes every row of
\* temp_pins, leaves cids, refs, blocks and aliases unchanged and sets the
\* stats row to the aggregate over the join of cids and blocks; every id
\* that no alias reaches is afterwards a candidate of the GC id query.
C8_CrashSafePins ==
    [][last'.op = "init_db" =>
        /\ temp_pins' = {}
        /\ cids' = cids
        /\ refs' = refs
        /\ blocks' = blocks
        /\ aliases' = aliases
        /\ stats' = [count |-> Cardinality(JoinedBlocks(DB)), size |-> SumLen(JoinedBlocks(DB))]
        /\ ~gc_id_query(DBnext).diverges
        /\ \A r \in cids :
               r.id \notin Closure(DB, {a.block_id : a \in aliases}) =>
                   r.id \in Range(gc_id_query(DBnext).ids)
      ]_vars

\* init_db has purged temp pins of a store that also has an alias, and an id
\* that was pinned is not reachable from the alias
C8_Witness ==
    /\ last.op = "init_db"
    /\ last.n > 0
    /\ aliases # {}
    /\ temp_pins = {}
    /\ {r.id : r \in cids} \ Reachable(DB) # {}

(* -------------------------------- C9 ---------------------------------- *)
\* C9: reachability closure. get_descendants(h) returns, without
\* duplicates, exactly the cids of the ids in the reflexive-transitive
\* closure of refs from the id of h, with or without blocks, and the empty
\* list when h has no id.
C9_ReachabilityClosure ==
    \A h \in Hashes :
        LET r == get_descendants(DB, h)
        IN  /\ ~r.diverges
            /\ NoDuplicates(r.list)
            /\ Range(r.list) = CidsOf(DB, Closure(DB, IdsOf(DB, h)))
            /\ get_id(DB, h) = None => r.list = <<>>

\* a cid whose walk yields an id more than once (a shared child) and whose
\* closure holds an id without a block
C9_Witness ==
    \E h \in Hashes :
        LET seed == SortedSeq(IdsOf(DB, h))
            w == descendant_of(DB, SeedRows(seed), <<>>, Cardinality(cids))
        IN  /\ ~w.diverges
            /\ Len(w.rows) > Len(get_descendants(DB, h).list)
            /\ \E id \in Closure(DB, IdsOf(DB, h)) : \A b \in blocks : b.block_id # id

(* -------------------------------- C10 --------------------------------- *)
\* C10: missing blocks. get_missing_blocks(h) returns exactly the cids of
\* the ids in the refs closure of the id of h that have no block row, a
\* subset of get_descendants(h) evaluated afterwards; when h had no id it
\* inserts one row for h into cids and returns [h]; it changes no other
\* table.
C10_MissingBlocks ==
    \A h \in Hashes :
        LET r == get_missing_blocks(DB, h)
            id == IdsOf(r.db, h)
            missing == {i \in Closure(r.db, id) : \A b \in r.db.blocks : b.block_id # i}
        IN  /\ ~r.diverges
            /\ NoDuplicates(r.list)
            /\ Range(r.list) = CidsOf(r.db, missing)
            /\ Range(r.list) \subseteq Range(get_descendants(r.db, h).list)
            /\ get_id(DB, h) = None =>
                   /\ r.list = <<h>>
                   /\ Cardinality(r.db.cids \ cids) = 1
            /\ get_id(DB, h) # None => r.db.cids = cids
            /\ cids \subseteq r.db.cids
            /\ [r.db EXCEPT !.cids = cids] = DB


(* -------------------------------- C11 --------------------------------- *)
\* the least set that contains S and the refs parents of its members
RECURSIVE AncestorClosure(_, _)
AncestorClosure(d, S) ==
    LET T == S \cup {x.parent_id : x \in {y \in d.refs : y.child_id \in S}}
    IN  IF T = S THEN S ELSE AncestorClosure(d, T)

\* C11: reverse alias. For every cid h, reverse_alias(h) returns Ok, and the
\* non-null names of its list are exactly the names of the aliases whose
\* target is the id of h or an ancestor of it over refs; also when h or an
\* ancestor has no alias, and when h has no id.
C11_ReverseAlias ==
    \A h \in Hashes :
        LET r == reverse_alias(DB, h)
        IN  /\ ~r.diverges
            /\ r.ok
            /\ Range(r.list) \ {None} =
                   {a.name : a \in {x \in aliases :
                                       x.block_id \in AncestorClosure(DB, IdsOf(DB, h))}}


(* -------------------------------- C12 --------------------------------- *)
Min(a, b) == IF a < b THEN a ELSE b

\* the stats row can be read and the id query returns
GcRuns(d) == d.stats.count >= 0 /\ d.stats.size >= 0 /\ ~gc_id_query(d).diverges

\* the candidates of an incremental_gc call: the ids of cids that are not
\* reachable from aliases and temp_pins
Candidates(d) == {r.id : r \in d.cids} \ Reachable(d)

\* C12: GC progress under budget. When the targets are exceeded at the start
\* of an incremental_gc call and there are candidates, the call removes at
\* least min(min_blocks, number of candidates) ids from cids whatever the
\* elapsed time, unless the targets are satisfied before; with
\* min_blocks >= 1 it removes at least one id; a call that stops with
\* candidates left and the targets still exceeded has processed at least
\* min_blocks ids.
C12_GcProgress ==
    \A min_blocks \in 0..MaxMinBlocks, timeout_at \in 0..MaxId, size_targets \in SizeTargets :
        (GcRuns(DB) /\ exceeded(size_targets, stats) /\ Candidates(DB) # {}) =>
            \A ids \in Orders(Range(gc_id_query(DB).ids)) :
                LET r == incremental_gc(DB, min_blocks, timeout_at, size_targets, ids)
                    removed == {x.id : x \in cids \ r.db.cids}
                    satisfied == ~exceeded_u64(size_targets, r.db.stats)
                IN  /\ ids # <<>>
                    /\ Cardinality(removed) >= Min(min_blocks, Len(ids)) \/ satisfied
                    /\ min_blocks >= 1 => Cardinality(removed) >= 1
                    /\ (Cardinality(removed) < Len(ids) /\ ~satisfied) =>
                           Cardinality(removed) >= min_blocks

\* an incremental_gc call has removed ids and was stopped by the time limit
\* with candidates left and the targets still exceeded
C12_Witness ==
    /\ last.op = "incremental_gc"
    /\ last.status = "Ok"
    /\ last.n > 0
    /\ ~last.done
    /\ Candidates(DB) # {}


(* -------------------------------- C13 --------------------------------- *)
\* C13: GC done flag. incremental_gc returns true if and only if, at return,
\* no id of the candidate list of this call is left in cids or the targets
\* are not exceeded by the stats (a stats row below zero being the wrapped
\* u64 of the running stats); when the targets are not exceeded at the start
\* it returns true, changes no table and makes no call on the CacheTracker.
C13_GcDoneFlag ==
    \A min_blocks \in 0..MaxMinBlocks, timeout_at \in 0..MaxId, size_targets \in SizeTargets :
        GcRuns(DB) =>
            \A ids \in Orders(Range(gc_id_query(DB).ids)) :
                LET r == incremental_gc(DB, min_blocks, timeout_at, size_targets, ids)
                    left == Range(ids) \cap {x.id : x \in r.db.cids}
                IN  /\ r.done <=> (left = {} \/ ~exceeded_u64(size_targets, r.db.stats))
                    /\ ~exceeded(size_targets, stats) =>
                           /\ r.done
                           /\ r.db = DB
                           /\ r.tracker = <<>>

\* an incremental_gc call has removed ids and has returned true with
\* candidates left, the targets being satisfied
C13_Witness ==
    /\ last.op = "incremental_gc"
    /\ last.status = "Ok"
    /\ last.done
    /\ last.n > 0
    /\ Candidates(DB) # {}


(* -------------------------------- C14 --------------------------------- *)
\* C14: write-transaction atomicity. When a call in a write transaction
\* ends in an Err (of the operation, such as a put_block that fails after it
\* has inserted the id, the pin row and the block, or of the commit), cids,
\* refs, blocks, aliases, temp_pins and stats are as before the transaction,
\* so a coherent stats row is still coherent; only the PinId of a session
\* handle may differ, and only after a put_block.
C14_TxnAtomicity ==
    [][last'.status \in {"Err", "CommitErr"} =>
        /\ DBnext = DB
        /\ stats = compute_store_stats(DB) => stats' = compute_store_stats(DBnext)
        /\ last'.op # "put_block" => handles' = handles
      ]_vars

\* a put_block has failed after it had assigned a PinId and inserted the pin
\* row: the handle holds a PinId that has no row
C14_Witness ==
    /\ last.op = "put_block"
    /\ last.status = "Err"
    /\ cids # {}
    /\ \E k \in Handles : handles[k] > 0 /\ \A t \in temp_pins : t.id # handles[k]


(* -------------------------------- C15 --------------------------------- *)
\* C15: cascade on id deletion. After an incremental_gc call, no row of
\* refs (as parent or as child), aliases, temp_pins or blocks refers to an
\* id the call has deleted from cids.
C15_Cascade ==
    [][(last'.op = "incremental_gc" /\ last'.status = "Ok") =>
        \A id \in {r.id : r \in cids} \ {r.id : r \in cids'} :
            /\ \A x \in refs' : x.parent_id # id /\ x.child_id # id
            /\ \A a \in aliases' : a.block_id # id
            /\ \A t \in temp_pins' : t.block_id # id
            /\ \A b \in blocks' : b.block_id # id
      ]_vars


(* -------------------------------- C16 --------------------------------- *)
\* C16: walk termination. After every put_block that succeeds, whatever its
\* link list (also one that links a block to itself or closes a cycle of two
\* blocks), get_descendants, get_missing_blocks and reverse_alias return for
\* every cid, and the id query of incremental_gc returns.
C16_WalksTerminate ==
    \A h \in Hashes, links \in LinkLists, k \in Handles \cup {None} :
        LET r == put_block(DB, h, ContentOf(h), links, IF k = None THEN None ELSE handles[k])
        IN  r.ok =>
                /\ ~gc_id_query(r.db).diverges
                /\ \A c \in Hashes :
                       /\ ~get_descendants(r.db, c).diverges
                       /\ ~get_missing_blocks(r.db, c).diverges
                       /\ ~reverse_alias(r.db, c).diverges


(* -------------------------------- C17 --------------------------------- *)
\* C17: duplicate links collapse. A put_block for a cid h without a block,
\* with a link list that names a child more than once, succeeds, stores the
\* block and records exactly the refs rows (id of h, id of child) of the
\* children named, one for each child.
C17_DuplicateLinks ==
    \A h \in Hashes, links \in LinkLists :
        (get_block(DB, h) = <<>> /\ ~NoDuplicates(links)) =>
            LET r == put_block(DB, h, ContentOf(h), links, None)
            IN  /\ r.ok
                /\ get_block(r.db, h) = <<[id |-> r.id, block |-> ContentOf(h)]>>
                /\ {x \in r.db.refs : x.parent_id = r.id} =
                       {[parent_id |-> r.id, child_id |-> get_id(r.db, links[i])] :
                            i \in DOMAIN links}


(* -------------------------------- C18 --------------------------------- *)
RowsReferToCids(d) ==
    LET ids == {r.id : r \in d.cids}
    IN  /\ \A x \in d.refs : x.parent_id \in ids /\ x.child_id \in ids
        /\ \A a \in d.aliases : a.block_id \in ids
        /\ \A t \in d.temp_pins : t.block_id \in ids

\* C18: referential integrity. After every transaction, both ids of every
\* refs row and the block_id of every aliases row and of every temp_pins row
\* are ids of cids; also after a put_block with any link list.
C18_ReferentialIntegrity ==
    /\ RowsReferToCids(DB)
    /\ \A h \in Hashes, links \in LinkLists, k \in Handles \cup {None} :
           LET r == put_block(DB, h, ContentOf(h), links, IF k = None THEN None ELSE handles[k])
           IN  r.ok => RowsReferToCids(r.db)

\* an incremental_gc call has deleted ids of a store that still has refs,
\* an alias and a temp pin
C18_Witness ==
    /\ last.op = "incremental_gc"
    /\ last.n > 0
    /\ refs # {}
    /\ aliases # {}
    /\ temp_pins # {}


(* -------------------------------- C19 --------------------------------- *)
\* the stats after the blocks of the first k ids of the list are taken off
\* the stats row
RunningStats(d, ids, k) ==
    LET gone == {b \in d.blocks : b.block_id \in Range(SubSeq(ids, 1, k))}
    IN  [count |-> d.stats.count - Cardinality(gone), size |-> d.stats.size - SumLen(gone)]

\* C19: no over-eviction. incremental_gc removes from cids only candidates
\* (ids not reachable from aliases and temp_pins at the start of the call),
\* each of them at a moment when the running stats still exceed the targets
\* (running stats below zero being a wrapped u64): with m ids removed, the
\* stats after each of the first m - 1 removals exceed the targets, and so
\* do the stats at the start.
C19_NoOverEviction ==
    \A min_blocks \in 0..MaxMinBlocks, timeout_at \in 0..MaxId, size_targets \in SizeTargets :
        GcRuns(DB) =>
            \A ids \in Orders(Range(gc_id_query(DB).ids)) :
                LET r == incremental_gc(DB, min_blocks, timeout_at, size_targets, ids)
                    removed == {x.id : x \in cids \ r.db.cids}
                    m == Cardinality(removed)
                IN  /\ removed \subseteq Candidates(DB)
                    /\ r.db.cids \subseteq cids
                    /\ \A k \in 0..(m - 1) :
                           exceeded_u64(size_targets, RunningStats(DB, ids, k))
                    /\ m > 0 => exceeded(size_targets, stats)

\* an incremental_gc call on a store with pinned ids has removed candidates
\* and has stopped, the targets satisfied, with a candidate and a block left
C19_Witness ==
    /\ last.op = "incremental_gc"
    /\ last.status = "Ok"
    /\ last.done
    /\ last.n > 0
    /\ Candidates(DB) # {}
    /\ PinnedIds(DB) # {}
    /\ JoinedBlocks(DB) # {}


(* -------------------------------- C20 --------------------------------- *)
\* C20: eviction order and tracker notification. In an incremental_gc call
\* that passes the first target check and returns Ok, the ids removed from
\* cids are the ids of a prefix of the list as CacheTracker::sort_ids left
\* it, the list is a permutation of the candidates, and delete_ids is called
\* exactly once, after sort_ids, with exactly that prefix.
C20_EvictionOrder ==
    \A min_blocks \in 0..MaxMinBlocks, timeout_at \in 0..MaxId, size_targets \in SizeTargets :
        (GcRuns(DB) /\ exceeded(size_targets, stats)) =>
            \A ids \in Orders(Range(gc_id_query(DB).ids)) :
                LET r == incremental_gc(DB, min_blocks, timeout_at, size_targets, ids)
                    removed == {x.id : x \in cids \ r.db.cids}
                    prefix == SubSeq(ids, 1, Cardinality(removed))
                    calls == SelectSeq(r.tracker, LAMBDA c : c.call = "delete_ids")
                IN  /\ Range(ids) = Candidates(DB)
                    /\ NoDuplicates(ids)
                    /\ removed = Range(prefix)
                    /\ Len(calls) = 1
                    /\ calls[1].ids = prefix
                    /\ r.tracker[1] = [call |-> "sort_ids", ids |-> ids]
                    /\ r.tracker[Len(r.tracker)].call = "delete_ids"

\* an incremental_gc call has removed a proper, non-empty prefix of a list of
\* candidates whose blocks are left behind
C20_Witness ==
    /\ last.op = "incremental_gc"
    /\ last.status = "Ok"
    /\ last.n > 0
    /\ Candidates(DB) # {}
    /\ orphaned(DB) # <<>>


(* -------------------------------- C21 --------------------------------- *)
\* the blocks rows whose block_id is no id of cids
OrphanRows(d) == {b \in d.blocks : \A r \in d.cids : r.id # b.block_id}

\* C21: orphan sweep. incremental_delete_orphaned deletes only blocks rows
\* whose block_id has no cids row, changes no other table, leaves get_block
\* and has_block of every cid as they were, deletes at least
\* min(min_blocks, number of orphans) rows, and returns true if and only if
\* no orphaned blocks row is left.
C21_OrphanSweep ==
    \A min_blocks \in 0..MaxMinBlocks, timeout_at \in 0..MaxId :
        LET r == incremental_delete_orphaned(DB, min_blocks, timeout_at)
            deleted == blocks \ r.db.blocks
        IN  /\ r.db.blocks \subseteq blocks
            /\ deleted \subseteq OrphanRows(DB)
            /\ [r.db EXCEPT !.blocks = blocks] = DB
            /\ \A h \in Hashes :
                   /\ get_block(r.db, h) = get_block(DB, h)
                   /\ has_block(r.db, h) = has_block(DB, h)
            /\ Cardinality(deleted) >= Min(min_blocks, Cardinality(OrphanRows(DB)))
            /\ r.done <=> OrphanRows(r.db) = {}

\* an incremental_delete_orphaned call has deleted orphaned blocks and was
\* stopped by the time limit with an orphan left
C21_Witness ==
    /\ last.op = "incremental_delete_orphaned"
    /\ last.status = "Ok"
    /\ last.n > 0
    /\ ~last.done
    /\ OrphanRows(DB) # {}


(* -------------------------------- C22 --------------------------------- *)
\* C22: PinId protocol. A put_block with a handle that holds 0 sets the
\* handle to a PinId >= 2 and inserts the new row (PinId, id), also when the
\* block exists (the put then succeeds); a put_block with a handle that
\* holds a PinId leaves the handle as it is and adds at most the row
\* (PinId, id), none when the row exists; put_block writes no other
\* temp_pins row.  In every state each temp_pins row has a PinId >= 2 and
\* each handle holds 0 or a PinId >= 2.
C22_PinIdProtocol ==
    /\ \A t \in temp_pins : t.id >= 2
    /\ \A k \in Handles : handles[k] = 0 \/ handles[k] >= 2
    /\ \A h \in Hashes, links \in LinkLists, k \in Handles :
           LET r == put_block(DB, h, ContentOf(h), links, handles[k])
               row == [id |-> r.alias, block_id |-> r.id]
           IN  /\ handles[k] = 0 =>
                      /\ r.alias >= 2
                      /\ row \notin temp_pins
               /\ handles[k] > 0 => r.alias = handles[k]
               /\ has_block(DB, h) => r.ok
               /\ r.db.temp_pins = temp_pins \cup {row}
               /\ r.id = get_id(r.db, h)

\* a handle was passed to two put_block calls, the second for a block that
\* existed: it holds a PinId that has two rows
C22_Witness ==
    /\ last.op = "put_block"
    /\ last.status = "Ok"
    /\ last.n = 0
    /\ \E k \in Handles :
           /\ handles[k] >= 2
           /\ Cardinality({t \in temp_pins : t.id = handles[k]}) >= 2

====
